---- MODULE Spec2Model ----
(***************************************************************************)
(* Model of ste/xfer-localToBlockBlob.go: the upload of one local file to  *)
(* one blob.  LocalToBlockBlob runs in one goroutine (the "main" process   *)
(* below, position mpc); every scheduled chunkFunc runs in a worker        *)
(* goroutine (position w[i].pc).  Every access to shared state (the        *)
(* job-part transfer manager jptm, the block-id table, the source mapping, *)
(* the remote service) is one step, so that all interleavings appear.      *)
(***************************************************************************)
EXTENDS Integers, Sequences, FiniteSets, TLC

(***************************************************************************)
(* Bounds of the model.                                                    *)
(***************************************************************************)
\* the source sizes are 0, 256, ..., MaxSizeUnits * 256 (half pages)
MaxSizeUnits == 5
\* only inputs that plan at most MaxChunks chunks are drawn
MaxChunks == 3
\* the page ranges given to pageBlobUploadFunc alone are 1..MaxPageLength long
MaxPageLength == 17

(***************************************************************************)
(* Program constants.                                                      *)
(***************************************************************************)
PageBlobPageBytes == 512
DefaultPageBlobChunkSize == 4 * 1024 * 1024

\* common.TransferStatus: failures are negative, success positive
\* ("If the transfer status value < 0, then transfer failed")
StatusValue(s) ==
    CASE s = "InProgress"               -> 0
      [] s = "Success"                  -> 2
      [] s = "Failed"                   -> 0 - 1
      [] s = "BlobTierFailure"          -> 0 - 2
      [] s = "BlobAlreadyExistsFailure" -> 0 - 3

DidFail(s) == StatusValue(s) < 0

(***************************************************************************)
(* Inputs.                                                                 *)
(***************************************************************************)
SourceSizes ==
    {k * (PageBlobPageBytes \div 2) : k \in 0..MaxSizeUnits}
        \cup {DefaultPageBlobChunkSize + PageBlobPageBytes}

BlockSizes == {256, 512, 700, 2 * DefaultPageBlobChunkSize}

\* candidate positions of non-zero bytes in the source
NzOffsets == {3, 519}

Iff(test, a, b) == IF test THEN a ELSE b

\* the job's chunk size taken as it is
PageChunkSize_AsGiven(c) == c

\* the chunk size the page-blob branch uses
PageChunkSize(c) ==
    Iff(c > DefaultPageBlobChunkSize \/ c % PageBlobPageBytes # 0,
        DefaultPageBlobChunkSize, c)

\* the chunk count both branches compute; the sizes drawn keep the quotient
\* far below 2^32, so the conversion to uint32 changes nothing
NumChunksOf(size, c) ==
    Iff(size % c = 0, size \div c, (size \div c) + 1)

IsPageBlob(vhd, size) == vhd /\ size % PageBlobPageBytes = 0

PlannedChunks(vhd, size, c) ==
    IF IsPageBlob(vhd, size) THEN NumChunksOf(size, PageChunkSize(c))
    ELSE IF size = 0 \/ size <= c THEN 0
    ELSE NumChunksOf(size, c)

VARIABLES
    \* jptm.Info() and the job's settings: fixed for the transfer
    blobSize, blockSize, isVhd, nz,
    \* the job-part transfer manager
    cancelled, status, failedOnce, bytesDone, numberOfChunks, chunksDone,
    transferDoneCount, doneSnap,
    \* LocalToBlockBlob's goroutine
    mpc, chunkSize, startIndex, blockIdCount,
    \* the source mapping
    mmf, unmapCount, badUnmap, staleRead,
    \* the scheduled chunks, their workers and the block-id table
    chunks, w, blockIds,
    \* the remote service: calls made, results got
    calls, rres,
    \* the epilogue: who ran it, and what it saw
    epi

cfgVars  == <<blobSize, blockSize, isVhd, nz>>
statusVars == <<status, failedOnce>>
doneVars == <<transferDoneCount, doneSnap>>
planVars == <<chunkSize, startIndex, blockIdCount, numberOfChunks, chunks>>
mmfVars  == <<mmf, unmapCount, badUnmap, staleRead>>
wVars    == <<w, blockIds, chunksDone, epi>>
netVars  == <<calls, rres>>

vars == <<cfgVars, cancelled, statusVars, bytesDone, doneVars, mpc, planVars,
          mmfVars, wVars, netVars>>

Chunks == 1..MaxChunks

IdleWorker ==
    [pc |-> "unscheduled", kind |-> "none", path |-> "none", adds |-> 0,
     added |-> 0, reports |-> 0, last |-> FALSE, res |-> "none"]

NoCalls ==
    [create |-> 0, stageBlock |-> 0, uploadPages |-> 0,
     upload |-> 0, commitBlockList |-> 0, setTier |-> 0, delete |-> 0]

NoResults ==
    [create |-> "none", upload |-> "none", commit |-> "none",
     setTier |-> "none", delete |-> "none", deleteLogged |-> FALSE]

NoEpilogue ==
    [by |-> {}, sawCancel |-> "none", committer |-> 0, committed |-> <<>>,
     reportedAtCommit |-> 0]

Init ==
    /\ blobSize \in SourceSizes
    /\ blockSize \in BlockSizes
    /\ isVhd \in BOOLEAN
    /\ PlannedChunks(isVhd, blobSize, blockSize) <= MaxChunks
    \* the bytes matter to the page-blob strategy alone
    /\ nz \in IF IsPageBlob(isVhd, blobSize)
              THEN SUBSET {o \in NzOffsets : o < blobSize} ELSE {{}}
    /\ cancelled = FALSE
    /\ status = "InProgress"
    /\ failedOnce = FALSE
    /\ bytesDone = 0
    /\ numberOfChunks = 0
    /\ chunksDone = 0
    /\ transferDoneCount = 0
    /\ doneSnap = <<>>
    /\ mpc = "start"
    /\ chunkSize = blockSize
    /\ startIndex = 0
    /\ blockIdCount = 0
    /\ mmf = "none"
    /\ unmapCount = 0
    /\ badUnmap = FALSE
    /\ staleRead = FALSE
    /\ chunks = <<>>
    /\ w = [i \in Chunks |-> IdleWorker]
    /\ blockIds = [i \in Chunks |-> 0]
    /\ calls = NoCalls
    /\ rres = NoResults
    /\ epi = NoEpilogue

(***************************************************************************)
(* The job-part transfer manager (IJobPartTransferMgr), as the engine      *)
(* uses it.                                                                *)
(***************************************************************************)
\* jptm.SetStatus: a failure status is never overwritten; failedOnce keeps
\* whether a failure status was ever asked for
SetStatus(s) ==
    /\ status' = IF DidFail(status) THEN status ELSE s
    /\ failedOnce' = (failedOnce \/ DidFail(s))

\* jptm.AddToBytesDone
AddToBytesDone(n) == bytesDone' = bytesDone + n

\* jptm.ReportTransferDone; doneSnap keeps what the job manager sees then
ReportTransferDone ==
    /\ transferDoneCount' = transferDoneCount + 1
    /\ doneSnap' =
         IF transferDoneCount = 0
         THEN [status |-> status, bytes |-> bytesDone, unmaps |-> unmapCount,
               deletes |-> calls.delete, reported |-> chunksDone]
         ELSE doneSnap

\* jptm.Cancel
Cancel == cancelled' = TRUE

\* srcMmf.Unmap()
Unmap ==
    /\ mmf' = IF mmf = "none" THEN "none" ELSE "unmapped"
    /\ unmapCount' = unmapCount + 1
    /\ badUnmap' = (badUnmap \/ mmf = "none")
    /\ UNCHANGED staleRead

\* a read of the mapped bytes: srcMmf.Slice(), jptm.BlobDstData(srcMmf)
ReadMmf ==
    /\ staleRead' = (staleRead \/ mmf = "unmapped")
    /\ UNCHANGED <<mmf, unmapCount, badUnmap>>

Call(op) == calls' = [calls EXCEPT ![op] = @ + 1]

(***************************************************************************)
(* LocalToBlockBlob, lines 58-125: the checks before the upload.           *)
(***************************************************************************)
\* lines 78-82
MainStart ==
    /\ mpc = "start"
    /\ mpc' = IF cancelled THEN "cancelledAdd" ELSE "checkExists"
    /\ UNCHANGED <<cfgVars, cancelled, statusVars, bytesDone, doneVars, planVars,
                   mmfVars, wVars, netVars>>

MainCancelledAdd ==
    /\ mpc = "cancelledAdd"
    /\ AddToBytesDone(blobSize)
    /\ mpc' = "cancelledDone"
    /\ UNCHANGED <<cfgVars, cancelled, statusVars, doneVars, planVars,
                   mmfVars, wVars, netVars>>

\* the early cancellation reported without the return
MainCancelledDone_NoReturn ==
    /\ mpc = "cancelledDone"
    /\ ReportTransferDone
    /\ mpc' = "checkExists"
    /\ UNCHANGED <<cfgVars, cancelled, statusVars, bytesDone, planVars,
                   mmfVars, wVars, netVars>>

MainCancelledDone ==
    /\ mpc = "cancelledDone"
    /\ ReportTransferDone
    /\ mpc' = "return"
    /\ UNCHANGED <<cfgVars, cancelled, statusVars, bytesDone, planVars,
                   mmfVars, wVars, netVars>>

\* lines 87-99: jptm.IsForceWriteTrue() is drawn here; GetProperties
\* answers without error when the blob exists
MainCheckExists ==
    /\ mpc = "checkExists"
    /\ \E forceWrite \in BOOLEAN, exists \in BOOLEAN :
         mpc' = IF ~forceWrite /\ exists THEN "existsStatus" ELSE "open"
    /\ UNCHANGED <<cfgVars, cancelled, statusVars, bytesDone, doneVars, planVars,
                   mmfVars, wVars, netVars>>

MainExistsStatus ==
    /\ mpc = "existsStatus"
    /\ SetStatus("BlobAlreadyExistsFailure")
    /\ mpc' = "existsAdd"
    /\ UNCHANGED <<cfgVars, cancelled, bytesDone, doneVars, planVars,
                   mmfVars, wVars, netVars>>

MainExistsAdd ==
    /\ mpc = "existsAdd"
    /\ AddToBytesDone(blobSize)
    /\ mpc' = "existsDone"
    /\ UNCHANGED <<cfgVars, cancelled, statusVars, doneVars, planVars,
                   mmfVars, wVars, netVars>>

\* the answer "the blob exists" without the return
MainExistsDone_NoReturn ==
    /\ mpc = "existsDone"
    /\ ReportTransferDone
    /\ mpc' = "open"
    /\ UNCHANGED <<cfgVars, cancelled, statusVars, bytesDone, planVars,
                   mmfVars, wVars, netVars>>

MainExistsDone ==
    /\ mpc = "existsDone"
    /\ ReportTransferDone
    /\ mpc' = "return"
    /\ UNCHANGED <<cfgVars, cancelled, statusVars, bytesDone, planVars,
                   mmfVars, wVars, netVars>>

\* lines 102-109: os.Open
MainOpen ==
    /\ mpc = "open"
    /\ \E ok \in BOOLEAN : mpc' = IF ok THEN "map" ELSE "openFailedAdd"
    /\ UNCHANGED <<cfgVars, cancelled, statusVars, bytesDone, doneVars, planVars,
                   mmfVars, wVars, netVars>>

MainOpenFailedAdd ==
    /\ mpc = "openFailedAdd"
    /\ AddToBytesDone(blobSize)
    /\ mpc' = "openFailedStatus"
    /\ UNCHANGED <<cfgVars, cancelled, statusVars, doneVars, planVars,
                   mmfVars, wVars, netVars>>

MainOpenFailedStatus ==
    /\ mpc = "openFailedStatus"
    /\ SetStatus("Failed")
    /\ mpc' = "openFailedDone"
    /\ UNCHANGED <<cfgVars, cancelled, bytesDone, doneVars, planVars,
                   mmfVars, wVars, netVars>>

MainOpenFailedDone ==
    /\ mpc = "openFailedDone"
    /\ ReportTransferDone
    /\ mpc' = "return"
    /\ UNCHANGED <<cfgVars, cancelled, statusVars, bytesDone, planVars,
                   mmfVars, wVars, netVars>>

\* lines 114-125: common.NewMMF, only when blobSize > 0
MainMap ==
    /\ mpc = "map"
    /\ IF blobSize > 0
       THEN \E ok \in BOOLEAN :
              /\ mmf' = IF ok THEN "mapped" ELSE mmf
              /\ mpc' = IF ok THEN "branch" ELSE "mapFailedStatus"
       ELSE /\ mpc' = "branch"
            /\ UNCHANGED mmf
    /\ UNCHANGED <<cfgVars, cancelled, statusVars, bytesDone, doneVars, planVars,
                   unmapCount, badUnmap, staleRead, wVars, netVars>>

MainMapFailedStatus ==
    /\ mpc = "mapFailedStatus"
    /\ SetStatus("Failed")
    /\ mpc' = "mapFailedAdd"
    /\ UNCHANGED <<cfgVars, cancelled, bytesDone, doneVars, planVars,
                   mmfVars, wVars, netVars>>

MainMapFailedAdd ==
    /\ mpc = "mapFailedAdd"
    /\ AddToBytesDone(blobSize)
    /\ mpc' = "mapFailedDone"
    /\ UNCHANGED <<cfgVars, cancelled, statusVars, doneVars, planVars,
                   mmfVars, wVars, netVars>>

MainMapFailedDone ==
    /\ mpc = "mapFailedDone"
    /\ ReportTransferDone
    /\ mpc' = "return"
    /\ UNCHANGED <<cfgVars, cancelled, statusVars, bytesDone, planVars,
                   mmfVars, wVars, netVars>>

\* the strategy choice with "smaller than" in place of "not larger than"
MainBranch_StrictlySmaller ==
    /\ mpc = "branch"
    /\ mpc' = IF IsPageBlob(isVhd, blobSize) THEN "pageHeaders"
              ELSE IF blobSize = 0 \/ blobSize < chunkSize THEN "putHeaders"
              ELSE "blockPlan"
    /\ UNCHANGED <<cfgVars, cancelled, statusVars, bytesDone, doneVars, planVars,
                   mmfVars, wVars, netVars>>

\* lines 127, 206, 211: the choice of the strategy
MainBranch ==
    /\ mpc = "branch"
    /\ mpc' = IF IsPageBlob(isVhd, blobSize) THEN "pageHeaders"
              ELSE IF blobSize = 0 \/ blobSize <= chunkSize THEN "putHeaders"
              ELSE "blockPlan"
    /\ UNCHANGED <<cfgVars, cancelled, statusVars, bytesDone, doneVars, planVars,
                   mmfVars, wVars, netVars>>

(***************************************************************************)
(* PutBlobUploadFunc, lines 411-496: the whole-object upload, run by       *)
(* LocalToBlockBlob's own goroutine.                                       *)
(***************************************************************************)
\* line 440: jptm.BlobDstData(srcMmf)
PutHeaders ==
    /\ mpc = "putHeaders"
    /\ ReadMmf
    /\ mpc' = "putUpload"
    /\ UNCHANGED <<cfgVars, cancelled, statusVars, bytesDone, doneVars, planVars,
                   wVars, netVars>>

\* lines 446-451: Upload of nothing, or of the whole mapping
PutUpload ==
    /\ mpc = "putUpload"
    /\ IF blobSize = 0 THEN UNCHANGED mmfVars ELSE ReadMmf
    /\ Call("upload")
    /\ \E r \in {"ok", "err"} :
         /\ rres' = [rres EXCEPT !.upload = r]
         /\ mpc' = IF r = "err" THEN "putFailed" ELSE "putTier"
    /\ UNCHANGED <<cfgVars, cancelled, statusVars, bytesDone, doneVars, planVars,
                   wVars>>

\* lines 454-459
PutFailed ==
    /\ mpc = "putFailed"
    /\ IF ~cancelled THEN SetStatus("Failed") ELSE UNCHANGED statusVars
    /\ mpc' = "putAdd"
    /\ UNCHANGED <<cfgVars, cancelled, bytesDone, doneVars, planVars,
                   mmfVars, wVars, netVars>>

\* lines 466-471: jptm.BlobTiers() is drawn here
PutTier ==
    /\ mpc = "putTier"
    /\ \E blockBlobTier \in {"None", "Hot"} :
         IF blockBlobTier = "None"
         THEN /\ mpc' = "putSuccess"
              /\ UNCHANGED netVars
         ELSE /\ Call("setTier")
              /\ \E r \in {"ok", "err"} :
                   /\ rres' = [rres EXCEPT !.setTier = r]
                   /\ mpc' = IF r = "err" THEN "putTierFailedStatus"
                             ELSE "putSuccess"
    /\ UNCHANGED <<cfgVars, cancelled, statusVars, bytesDone, doneVars, planVars,
                   mmfVars, wVars>>

\* a tier failure of PutBlob that deletes the blob and leaves the status alone
PutTierFailedStatus_Unset ==
    /\ mpc = "putTierFailedStatus"
    /\ mpc' = "putTierFailedDelete"
    /\ UNCHANGED <<cfgVars, cancelled, statusVars, bytesDone, doneVars, planVars,
                   mmfVars, wVars, netVars>>

\* line 474
PutTierFailedStatus ==
    /\ mpc = "putTierFailedStatus"
    /\ SetStatus("BlobTierFailure")
    /\ mpc' = "putTierFailedDelete"
    /\ UNCHANGED <<cfgVars, cancelled, bytesDone, doneVars, planVars,
                   mmfVars, wVars, netVars>>

\* lines 477-480: every error of the delete is logged
PutTierFailedDelete ==
    /\ mpc = "putTierFailedDelete"
    /\ Call("delete")
    /\ \E r \in {"ok", "notFound", "error"} :
         rres' = [rres EXCEPT !.delete = r, !.deleteLogged = (r # "ok")]
    /\ mpc' = "putSuccess"
    /\ UNCHANGED <<cfgVars, cancelled, statusVars, bytesDone, doneVars, planVars,
                   mmfVars, wVars>>

\* line 483
PutSuccess ==
    /\ mpc = "putSuccess"
    /\ SetStatus("Success")
    /\ mpc' = "putAdd"
    /\ UNCHANGED <<cfgVars, cancelled, bytesDone, doneVars, planVars,
                   mmfVars, wVars, netVars>>

\* line 487
PutAdd ==
    /\ mpc = "putAdd"
    /\ AddToBytesDone(blobSize)
    /\ mpc' = "putDone"
    /\ UNCHANGED <<cfgVars, cancelled, statusVars, doneVars, planVars,
                   mmfVars, wVars, netVars>>

\* line 490
PutDone ==
    /\ mpc = "putDone"
    /\ ReportTransferDone
    /\ mpc' = "putUnmap"
    /\ UNCHANGED <<cfgVars, cancelled, statusVars, bytesDone, planVars,
                   mmfVars, wVars, netVars>>

\* lines 493-495
PutUnmap ==
    /\ mpc = "putUnmap"
    /\ IF blobSize # 0 THEN Unmap ELSE UNCHANGED mmfVars
    /\ mpc' = "return"
    /\ UNCHANGED <<cfgVars, cancelled, statusVars, bytesDone, doneVars, planVars,
                   wVars, netVars>>

PutBlobUploadFunc ==
    \/ PutHeaders \/ PutUpload \/ PutFailed \/ PutTier
    \/ PutTierFailedStatus \/ PutTierFailedDelete \/ PutSuccess
    \/ PutAdd \/ PutDone \/ PutUnmap

(***************************************************************************)
(* LocalToBlockBlob, lines 127-205: the page-blob branch.                  *)
(***************************************************************************)
\* lines 134-140: the chunk size, then jptm.BlobDstData(srcMmf)
PageHeaders ==
    /\ mpc = "pageHeaders"
    /\ chunkSize' = PageChunkSize(chunkSize)
    /\ ReadMmf
    /\ mpc' = "pageCreate"
    /\ UNCHANGED <<cfgVars, cancelled, statusVars, bytesDone, doneVars,
                   startIndex, blockIdCount, numberOfChunks, chunks,
                   wVars, netVars>>

\* lines 143-145
PageCreate ==
    /\ mpc = "pageCreate"
    /\ Call("create")
    /\ \E r \in {"ok", "err"} :
         /\ rres' = [rres EXCEPT !.create = r]
         /\ mpc' = IF r = "err" THEN "createFailedCancel" ELSE "pageTier"
    /\ UNCHANGED <<cfgVars, cancelled, statusVars, bytesDone, doneVars, planVars,
                   mmfVars, wVars>>

\* line 148
CreateFailedCancel ==
    /\ mpc = "createFailedCancel"
    /\ Cancel
    /\ mpc' = "createFailedStatus"
    /\ UNCHANGED <<cfgVars, statusVars, bytesDone, doneVars, planVars,
                   mmfVars, wVars, netVars>>

\* line 149
CreateFailedStatus ==
    /\ mpc = "createFailedStatus"
    /\ SetStatus("Failed")
    /\ mpc' = "createFailedDone"
    /\ UNCHANGED <<cfgVars, cancelled, bytesDone, doneVars, planVars,
                   mmfVars, wVars, netVars>>

\* line 150
CreateFailedDone ==
    /\ mpc = "createFailedDone"
    /\ ReportTransferDone
    /\ mpc' = "createFailedUnmap"
    /\ UNCHANGED <<cfgVars, cancelled, statusVars, bytesDone, planVars,
                   mmfVars, wVars, netVars>>

\* line 151
CreateFailedUnmap ==
    /\ mpc = "createFailedUnmap"
    /\ Unmap
    /\ mpc' = "return"
    /\ UNCHANGED <<cfgVars, cancelled, statusVars, bytesDone, doneVars, planVars,
                   wVars, netVars>>

\* lines 157-162: jptm.BlobTiers() is drawn here
PageTier ==
    /\ mpc = "pageTier"
    /\ \E pageBlobTier \in {"None", "P10"} :
         IF pageBlobTier = "None"
         THEN /\ mpc' = "pagePlan"
              /\ UNCHANGED netVars
         ELSE /\ Call("setTier")
              /\ \E r \in {"ok", "err"} :
                   /\ rres' = [rres EXCEPT !.setTier = r]
                   /\ mpc' = IF r = "err" THEN "tierFailedCancel"
                             ELSE "pagePlan"
    /\ UNCHANGED <<cfgVars, cancelled, statusVars, bytesDone, doneVars, planVars,
                   mmfVars, wVars>>

\* line 165
TierFailedCancel ==
    /\ mpc = "tierFailedCancel"
    /\ Cancel
    /\ mpc' = "tierFailedStatus"
    /\ UNCHANGED <<cfgVars, statusVars, bytesDone, doneVars, planVars,
                   mmfVars, wVars, netVars>>

\* line 166
TierFailedStatus ==
    /\ mpc = "tierFailedStatus"
    /\ SetStatus("BlobTierFailure")
    /\ mpc' = "tierFailedDelete"
    /\ UNCHANGED <<cfgVars, cancelled, bytesDone, doneVars, planVars,
                   mmfVars, wVars, netVars>>

\* lines 169-174: every error of the delete is logged
TierFailedDelete ==
    /\ mpc = "tierFailedDelete"
    /\ Call("delete")
    /\ \E r \in {"ok", "notFound", "error"} :
         rres' = [rres EXCEPT !.delete = r, !.deleteLogged = (r # "ok")]
    /\ mpc' = "tierFailedDone"
    /\ UNCHANGED <<cfgVars, cancelled, statusVars, bytesDone, doneVars, planVars,
                   mmfVars, wVars>>

\* line 175
TierFailedDone ==
    /\ mpc = "tierFailedDone"
    /\ ReportTransferDone
    /\ mpc' = "tierFailedUnmap"
    /\ UNCHANGED <<cfgVars, cancelled, statusVars, bytesDone, planVars,
                   mmfVars, wVars, netVars>>

\* line 176
TierFailedUnmap ==
    /\ mpc = "tierFailedUnmap"
    /\ Unmap
    /\ mpc' = "return"
    /\ UNCHANGED <<cfgVars, cancelled, statusVars, bytesDone, doneVars, planVars,
                   wVars, netVars>>

\* lines 182-186: numPages and jptm.SetNumberOfChunks(numPages)
PagePlan ==
    /\ mpc = "pagePlan"
    /\ numberOfChunks' = NumChunksOf(blobSize, chunkSize)
    /\ mpc' = "pageSchedule"
    /\ UNCHANGED <<cfgVars, cancelled, statusVars, bytesDone, doneVars,
                   chunkSize, startIndex, blockIdCount, chunks,
                   mmfVars, wVars, netVars>>

\* a planner that forgets to shorten the last chunk
AdjustedChunkSize_Full == chunkSize

\* the length of the chunk that starts at startIndex (lines 198-202, 240-245)
AdjustedChunkSize ==
    IF startIndex + chunkSize > blobSize THEN blobSize - startIndex
    ELSE chunkSize

\* jptm.ScheduleChunks: the chunk's worker may run from now on
ScheduleChunks(kind) ==
    /\ chunks' = Append(chunks, [offset |-> startIndex,
                                 length |-> AdjustedChunkSize])
    /\ w' = [w EXCEPT ![Len(chunks) + 1].pc = "ready",
                      ![Len(chunks) + 1].kind = kind]

\* lines 197-205: one turn of the loop, or its end
PageSchedule ==
    /\ mpc = "pageSchedule"
    /\ IF startIndex < blobSize
       THEN /\ ScheduleChunks("page")
            /\ startIndex' = startIndex + chunkSize
            /\ mpc' = mpc
       ELSE /\ mpc' = "return"
            /\ UNCHANGED <<chunks, w, startIndex>>
    /\ UNCHANGED <<cfgVars, cancelled, statusVars, bytesDone, doneVars,
                   chunkSize, blockIdCount, numberOfChunks,
                   mmfVars, blockIds, chunksDone, epi, netVars>>

PageBlobBranch ==
    \/ PageHeaders \/ PageCreate
    \/ CreateFailedCancel \/ CreateFailedStatus \/ CreateFailedDone
    \/ CreateFailedUnmap
    \/ PageTier
    \/ TierFailedCancel \/ TierFailedStatus \/ TierFailedDelete
    \/ TierFailedDone \/ TierFailedUnmap
    \/ PagePlan \/ PageSchedule

(***************************************************************************)
(* LocalToBlockBlob, lines 211-256: the block-blob branch.                 *)
(***************************************************************************)
\* lines 215-236: numChunks, jptm.SetNumberOfChunks, the empty block-id table
BlockPlan ==
    /\ mpc = "blockPlan"
    /\ numberOfChunks' = NumChunksOf(blobSize, chunkSize)
    /\ blockIds' = [i \in Chunks |-> 0]
    /\ blockIdCount' = 0
    /\ mpc' = "blockSchedule"
    /\ UNCHANGED <<cfgVars, cancelled, statusVars, bytesDone, doneVars,
                   chunkSize, startIndex, chunks,
                   mmfVars, w, chunksDone, epi, netVars>>

\* lines 239-251: one turn of the loop, or its end
BlockSchedule ==
    /\ mpc = "blockSchedule"
    /\ IF startIndex < blobSize
       THEN /\ ScheduleChunks("block")
            /\ startIndex' = startIndex + chunkSize
            /\ blockIdCount' = blockIdCount + 1
            /\ mpc' = mpc
       ELSE /\ mpc' = "blockCheck"
            /\ UNCHANGED <<chunks, w, startIndex, blockIdCount>>
    /\ UNCHANGED <<cfgVars, cancelled, statusVars, bytesDone, doneVars,
                   chunkSize, numberOfChunks,
                   mmfVars, blockIds, chunksDone, epi, netVars>>

\* lines 253-255: the sanity check of the number of chunks scheduled
BlockCheck ==
    /\ mpc = "blockCheck"
    /\ mpc' = IF blockIdCount # numberOfChunks THEN "panic" ELSE "return"
    /\ UNCHANGED <<cfgVars, cancelled, statusVars, bytesDone, doneVars, planVars,
                   mmfVars, wVars, netVars>>

BlockBlobBranch == BlockPlan \/ BlockSchedule \/ BlockCheck

\* the transfer is cancelled from outside the engine (the job is cancelled)
\* while the job manager still waits for it
ExternalCancel ==
    /\ ~cancelled
    /\ transferDoneCount = 0
    /\ Cancel
    /\ UNCHANGED <<cfgVars, statusVars, bytesDone, doneVars, mpc, planVars,
                   mmfVars, wVars, netVars>>

Prologue ==
    \/ MainStart \/ MainCancelledAdd \/ MainCancelledDone
    \/ MainCheckExists \/ MainExistsStatus \/ MainExistsAdd \/ MainExistsDone
    \/ MainOpen \/ MainOpenFailedAdd \/ MainOpenFailedStatus \/ MainOpenFailedDone
    \/ MainMap \/ MainMapFailedStatus \/ MainMapFailedAdd \/ MainMapFailedDone
    \/ MainBranch

(***************************************************************************)
(* What the chunk workers share.                                           *)
(***************************************************************************)
\* jptm.ReportChunkDone: one atomic increment; the caller whose increment
\* reaches the number of chunks is told it is the last
ReportChunkDone(i, ifLast, ifNot) ==
    /\ chunksDone' = chunksDone + 1
    /\ w' = [w EXCEPT ![i].reports = @ + 1,
                      ![i].last = (chunksDone + 1 = numberOfChunks),
                      ![i].pc = IF chunksDone + 1 = numberOfChunks
                                THEN ifLast ELSE ifNot]

\* the worker's jptm.AddToBytesDone(n)
WorkerAdd(i, n, next) ==
    /\ AddToBytesDone(n)
    /\ w' = [w EXCEPT ![i].adds = @ + 1, ![i].added = @ + n, ![i].pc = next]

At(i, kind, pc) == w[i].kind = kind /\ w[i].pc = pc

Goto(i, pc) == w' = [w EXCEPT ![i].pc = pc]

(***************************************************************************)
(* blockBlobUploadFunc, lines 260-409: the worker of block i.              *)
(***************************************************************************)
\* the worker without the test of WasCanceled at its start
BBStart_IgnoresCancel(i) ==
    /\ At(i, "block", "ready")
    /\ w' = [w EXCEPT ![i].pc = "stage", ![i].path = "none"]
    /\ UNCHANGED <<cfgVars, cancelled, statusVars, bytesDone, doneVars, mpc,
                   planVars, mmfVars, blockIds, chunksDone, epi, netVars>>

\* line 305
BBStart(i) ==
    /\ At(i, "block", "ready")
    /\ w' = [w EXCEPT ![i].pc = IF cancelled THEN "add" ELSE "stage",
                      ![i].path = IF cancelled THEN "skip" ELSE "none"]
    /\ UNCHANGED <<cfgVars, cancelled, statusVars, bytesDone, doneVars, mpc,
                   planVars, mmfVars, blockIds, chunksDone, epi, netVars>>

\* the worker with the loop's counter captured in place of its own chunkId:
\* it writes the slot the loop has come to
BBStage_CapturedCounter(i) ==
    /\ At(i, "block", "stage")
    /\ blockIds' = [blockIds EXCEPT
                      ![IF blockIdCount < numberOfChunks THEN blockIdCount + 1
                        ELSE numberOfChunks] = i]
    /\ ReadMmf
    /\ Call("stageBlock")
    /\ Goto(i, "staging")
    /\ UNCHANGED <<cfgVars, cancelled, statusVars, bytesDone, doneVars, mpc,
                   planVars, chunksDone, epi, rres>>

\* lines 320-329: the block id (a fresh UUID: the model takes i), its slot
\* in the table, the slice of the mapping, and StageBlock is sent
BBStage(i) ==
    /\ At(i, "block", "stage")
    /\ blockIds' = [blockIds EXCEPT ![i] = i]
    /\ ReadMmf
    /\ Call("stageBlock")
    /\ Goto(i, "staging")
    /\ UNCHANGED <<cfgVars, cancelled, statusVars, bytesDone, doneVars, mpc,
                   planVars, chunksDone, epi, rres>>

\* line 329-330: StageBlock answers; the call has read its body, the slice
\* of the mapping, by now
BBStageReturn(i) ==
    /\ At(i, "block", "staging")
    /\ ReadMmf
    /\ \E r \in {"ok", "err"} :
         w' = [w EXCEPT ![i].res = r,
                        ![i].path = r,
                        ![i].pc = IF r = "err" THEN "errCheck" ELSE "add"]
    /\ UNCHANGED <<cfgVars, cancelled, statusVars, bytesDone, doneVars, mpc,
                   planVars, blockIds, chunksDone, epi, netVars>>

\* line 332
BBErrCheck(i) ==
    /\ At(i, "block", "errCheck")
    /\ w' = [w EXCEPT ![i].pc = IF cancelled THEN "add" ELSE "errCancel",
                      ![i].path = IF cancelled THEN "err" ELSE "failed"]
    /\ UNCHANGED <<cfgVars, cancelled, statusVars, bytesDone, doneVars, mpc,
                   planVars, mmfVars, blockIds, chunksDone, epi, netVars>>

\* a failed block that sets the status and does not cancel the transfer
BBErrCancel_NoCancel(i) ==
    /\ At(i, "block", "errCancel")
    /\ Goto(i, "errStatus")
    /\ UNCHANGED <<cfgVars, cancelled, statusVars, bytesDone, doneVars, mpc,
                   planVars, mmfVars, blockIds, chunksDone, epi, netVars>>

\* line 340
BBErrCancel(i) ==
    /\ At(i, "block", "errCancel")
    /\ Cancel
    /\ Goto(i, "errStatus")
    /\ UNCHANGED <<cfgVars, statusVars, bytesDone, doneVars, mpc,
                   planVars, mmfVars, blockIds, chunksDone, epi, netVars>>

\* a failed block that cancels the transfer and leaves the status alone
BBErrStatus_Unset(i) ==
    /\ At(i, "block", "errStatus")
    /\ Goto(i, "add")
    /\ UNCHANGED <<cfgVars, cancelled, statusVars, bytesDone, doneVars, mpc,
                   planVars, mmfVars, blockIds, chunksDone, epi, netVars>>

\* line 344
BBErrStatus(i) ==
    /\ At(i, "block", "errStatus")
    /\ SetStatus("Failed")
    /\ Goto(i, "add")
    /\ UNCHANGED <<cfgVars, cancelled, bytesDone, doneVars, mpc,
                   planVars, mmfVars, blockIds, chunksDone, epi, netVars>>

\* a skipped block whose bytes are not added
BBAdd_SkipUncounted(i) ==
    /\ At(i, "block", "add")
    /\ IF w[i].path = "skip"
       THEN /\ Goto(i, "report")
            /\ UNCHANGED bytesDone
       ELSE WorkerAdd(i, chunks[i].length, "report")
    /\ UNCHANGED <<cfgVars, cancelled, statusVars, doneVars, mpc,
                   planVars, mmfVars, blockIds, chunksDone, epi, netVars>>

\* lines 309, 348, 361
BBAdd(i) ==
    /\ At(i, "block", "add")
    /\ WorkerAdd(i, chunks[i].length, "report")
    /\ UNCHANGED <<cfgVars, cancelled, statusVars, doneVars, mpc,
                   planVars, mmfVars, blockIds, chunksDone, epi, netVars>>

\* a skipped or failed block that calls transferDone without looking at
\* what ReportChunkDone answered
BBReport_LastUnchecked(i) ==
    /\ At(i, "block", "report")
    /\ ReportChunkDone(i, IF w[i].path = "ok" THEN "epilogue" ELSE "unmap",
                       IF w[i].path = "ok" THEN "done" ELSE "unmap")
    /\ UNCHANGED <<cfgVars, cancelled, statusVars, bytesDone, doneVars, mpc,
                   planVars, mmfVars, blockIds, epi, netVars>>

\* lines 310-317, 350-357, 364: the last chunk of a skipped or failed block
\* calls transferDone, the last chunk of a staged block goes on to line 366
BBReport(i) ==
    /\ At(i, "block", "report")
    /\ ReportChunkDone(i, IF w[i].path = "ok" THEN "epilogue" ELSE "unmap",
                       "done")
    /\ UNCHANGED <<cfgVars, cancelled, statusVars, bytesDone, doneVars, mpc,
                   planVars, mmfVars, blockIds, epi, netVars>>

\* an epilogue that commits whether the transfer is cancelled or not
BBEpilogue_NoCancelCheck(i) ==
    /\ At(i, "block", "epilogue")
    /\ Goto(i, "commit")
    /\ epi' = [epi EXCEPT !.by = @ \cup {i},
                          !.sawCancel = IF cancelled THEN "yes" ELSE "no"]
    /\ UNCHANGED <<cfgVars, cancelled, statusVars, bytesDone, doneVars, mpc,
                   planVars, mmfVars, blockIds, chunksDone, netVars>>

\* lines 366-369
BBEpilogue(i) ==
    /\ At(i, "block", "epilogue")
    /\ Goto(i, IF cancelled THEN "unmap" ELSE "commit")
    /\ epi' = [epi EXCEPT !.by = @ \cup {i}, !.sawCancel = IF cancelled THEN "yes" ELSE "no"]
    /\ UNCHANGED <<cfgVars, cancelled, statusVars, bytesDone, doneVars, mpc,
                   planVars, mmfVars, blockIds, chunksDone, netVars>>

\* lines 378-382: jptm.BlobDstData(bbu.srcMmf), then CommitBlockList of
\* the table
BBCommit(i) ==
    /\ At(i, "block", "commit")
    /\ ReadMmf
    /\ Call("commitBlockList")
    /\ epi' = [epi EXCEPT !.committer = i,
                          !.committed = [c \in 1..numberOfChunks |-> blockIds[c]],
                          !.reportedAtCommit = chunksDone]
    /\ \E r \in {"ok", "err"} :
         /\ rres' = [rres EXCEPT !.commit = r]
         /\ Goto(i, IF r = "err" THEN "commitFailed" ELSE "tier")
    /\ UNCHANGED <<cfgVars, cancelled, statusVars, bytesDone, doneVars, mpc,
                   planVars, blockIds, chunksDone>>

\* lines 385-387
BBCommitFailed(i) ==
    /\ At(i, "block", "commitFailed")
    /\ SetStatus("Failed")
    /\ Goto(i, "unmap")
    /\ UNCHANGED <<cfgVars, cancelled, bytesDone, doneVars, mpc,
                   planVars, mmfVars, blockIds, chunksDone, epi, netVars>>

\* lines 394-399: jptm.BlobTiers() is drawn here
BBTier(i) ==
    /\ At(i, "block", "tier")
    /\ \E blockBlobTier \in {"None", "Hot"} :
         IF blockBlobTier = "None"
         THEN /\ Goto(i, "success")
              /\ UNCHANGED netVars
         ELSE /\ Call("setTier")
              /\ \E r \in {"ok", "err"} :
                   /\ rres' = [rres EXCEPT !.setTier = r]
                   /\ Goto(i, IF r = "err" THEN "tierFailed" ELSE "success")
    /\ UNCHANGED <<cfgVars, cancelled, statusVars, bytesDone, doneVars, mpc,
                   planVars, mmfVars, blockIds, chunksDone, epi>>

\* a tier failure that is logged and leaves the status alone
BBTierFailed_Unset(i) ==
    /\ At(i, "block", "tierFailed")
    /\ Goto(i, "success")
    /\ UNCHANGED <<cfgVars, cancelled, statusVars, bytesDone, doneVars, mpc,
                   planVars, mmfVars, blockIds, chunksDone, epi, netVars>>

\* line 402
BBTierFailed(i) ==
    /\ At(i, "block", "tierFailed")
    /\ SetStatus("BlobTierFailure")
    /\ Goto(i, "success")
    /\ UNCHANGED <<cfgVars, cancelled, bytesDone, doneVars, mpc,
                   planVars, mmfVars, blockIds, chunksDone, epi, netVars>>

\* line 405
BBSuccess(i) ==
    /\ At(i, "block", "success")
    /\ SetStatus("Success")
    /\ Goto(i, "unmap")
    /\ UNCHANGED <<cfgVars, cancelled, bytesDone, doneVars, mpc,
                   planVars, mmfVars, blockIds, chunksDone, epi, netVars>>

\* transferDone without its Unmap
TransferDoneUnmap_Forgotten(i) ==
    /\ At(i, "block", "unmap")
    /\ Goto(i, "cleanup")
    /\ epi' = [epi EXCEPT !.by = @ \cup {i}]
    /\ UNCHANGED <<cfgVars, cancelled, statusVars, bytesDone, doneVars, mpc,
                   planVars, mmfVars, blockIds, chunksDone, netVars>>

\* transferDone, line 289
TransferDoneUnmap(i) ==
    /\ At(i, "block", "unmap")
    /\ Unmap
    /\ Goto(i, "cleanup")
    /\ epi' = [epi EXCEPT !.by = @ \cup {i}]
    /\ UNCHANGED <<cfgVars, cancelled, statusVars, bytesDone, doneVars, mpc,
                   planVars, blockIds, chunksDone, netVars>>

\* transferDone with the test the comment above it words: status < 0
TransferDoneCleanup_OnlyNegative(i) ==
    /\ At(i, "block", "cleanup")
    /\ IF StatusValue(status) < 0
       THEN /\ Call("delete")
            /\ \E r \in {"ok", "notFound", "error"} :
                 rres' = [rres EXCEPT !.delete = r,
                                      !.deleteLogged = (r = "error")]
       ELSE UNCHANGED netVars
    /\ Goto(i, "reportDone")
    /\ UNCHANGED <<cfgVars, cancelled, statusVars, bytesDone, doneVars, mpc,
                   planVars, mmfVars, blockIds, chunksDone, epi>>

\* transferDone, lines 294-301: the delete when the status is <= 0; only a
\* storage error other than "not found" is logged
TransferDoneCleanup(i) ==
    /\ At(i, "block", "cleanup")
    /\ IF StatusValue(status) <= 0
       THEN /\ Call("delete")
            /\ \E r \in {"ok", "notFound", "error"} :
                 rres' = [rres EXCEPT !.delete = r,
                                      !.deleteLogged = (r = "error")]
       ELSE UNCHANGED netVars
    /\ Goto(i, "reportDone")
    /\ UNCHANGED <<cfgVars, cancelled, statusVars, bytesDone, doneVars, mpc,
                   planVars, mmfVars, blockIds, chunksDone, epi>>

\* transferDone, line 302
TransferDoneReport(i) ==
    /\ At(i, "block", "reportDone")
    /\ ReportTransferDone
    /\ Goto(i, "done")
    /\ UNCHANGED <<cfgVars, cancelled, statusVars, bytesDone, mpc,
                   planVars, mmfVars, blockIds, chunksDone, epi, netVars>>

blockBlobUploadFunc(i) ==
    \/ BBStart(i) \/ BBStage(i) \/ BBStageReturn(i)
    \/ BBErrCheck(i) \/ BBErrCancel(i) \/ BBErrStatus(i)
    \/ BBAdd(i) \/ BBReport(i)
    \/ BBEpilogue(i) \/ BBCommit(i) \/ BBCommitFailed(i)
    \/ BBTier(i) \/ BBTierFailed(i) \/ BBSuccess(i)
    \/ TransferDoneUnmap(i) \/ TransferDoneCleanup(i) \/ TransferDoneReport(i)

(***************************************************************************)
(* pageBlobUploadFunc, lines 498-607: the worker of page range i.          *)
(***************************************************************************)
\* lines 556-571: the scan reads the bytes as 8-byte integers, the first
\* len / 8 of them; an integer is non-zero when one of its bytes is
AllBytesZero(offset, length) ==
    ~ \E o \in nz : offset <= o /\ o < offset + 8 * (length \div 8)

\* line 549
PBStart(i) ==
    /\ At(i, "page", "ready")
    /\ w' = [w EXCEPT ![i].pc = IF cancelled THEN "add" ELSE "scan",
                      ![i].path = IF cancelled THEN "skip" ELSE "none"]
    /\ UNCHANGED <<cfgVars, cancelled, statusVars, bytesDone, doneVars, mpc,
                   planVars, mmfVars, blockIds, chunksDone, epi, netVars>>

\* lines 556-586: the slice of the mapping and its scan; a range of zeros
\* is done, for any other UploadPages is sent
PBScan(i) ==
    /\ At(i, "page", "scan")
    /\ ReadMmf
    /\ IF AllBytesZero(chunks[i].offset, chunks[i].length)
       THEN /\ w' = [w EXCEPT ![i].pc = "add", ![i].path = "zero"]
            /\ UNCHANGED calls
       ELSE /\ Goto(i, "uploading")
            /\ Call("uploadPages")
    /\ UNCHANGED <<cfgVars, cancelled, statusVars, bytesDone, doneVars, mpc,
                   planVars, blockIds, chunksDone, epi, rres>>

\* lines 586-587: UploadPages answers; the call has read its body, the
\* slice of the mapping, by now
PBUploadReturn(i) ==
    /\ At(i, "page", "uploading")
    /\ ReadMmf
    /\ \E r \in {"ok", "err"} :
         w' = [w EXCEPT ![i].res = r,
                        ![i].path = r,
                        ![i].pc = IF r = "err" THEN "errCheck" ELSE "add"]
    /\ UNCHANGED <<cfgVars, cancelled, statusVars, bytesDone, doneVars, mpc,
                   planVars, blockIds, chunksDone, epi, netVars>>

\* line 588
PBErrCheck(i) ==
    /\ At(i, "page", "errCheck")
    /\ w' = [w EXCEPT ![i].pc = IF cancelled THEN "add" ELSE "errCancel",
                      ![i].path = IF cancelled THEN "err" ELSE "failed"]
    /\ UNCHANGED <<cfgVars, cancelled, statusVars, bytesDone, doneVars, mpc,
                   planVars, mmfVars, blockIds, chunksDone, epi, netVars>>

\* line 594
PBErrCancel(i) ==
    /\ At(i, "page", "errCancel")
    /\ Cancel
    /\ Goto(i, "errStatus")
    /\ UNCHANGED <<cfgVars, statusVars, bytesDone, doneVars, mpc,
                   planVars, mmfVars, blockIds, chunksDone, epi, netVars>>

\* line 595
PBErrStatus(i) ==
    /\ At(i, "page", "errStatus")
    /\ SetStatus("Failed")
    /\ Goto(i, "add")
    /\ UNCHANGED <<cfgVars, cancelled, bytesDone, doneVars, mpc,
                   planVars, mmfVars, blockIds, chunksDone, epi, netVars>>

\* pageDone, line 527
PageDoneAdd(i) ==
    /\ At(i, "page", "add")
    /\ WorkerAdd(i, chunks[i].length, "report")
    /\ UNCHANGED <<cfgVars, cancelled, statusVars, doneVars, mpc,
                   planVars, mmfVars, blockIds, chunksDone, epi, netVars>>

\* pageDone that does not look at the answer of ReportChunkDone
PageDoneReport_LastUnchecked(i) ==
    /\ At(i, "page", "report")
    /\ ReportChunkDone(i, "success", "success")
    /\ UNCHANGED <<cfgVars, cancelled, statusVars, bytesDone, doneVars, mpc,
                   planVars, mmfVars, blockIds, epi, netVars>>

\* pageDone, line 528
PageDoneReport(i) ==
    /\ At(i, "page", "report")
    /\ ReportChunkDone(i, "success", "done")
    /\ UNCHANGED <<cfgVars, cancelled, statusVars, bytesDone, doneVars, mpc,
                   planVars, mmfVars, blockIds, epi, netVars>>

\* pageDone, line 533
PageDoneSuccess(i) ==
    /\ At(i, "page", "success")
    /\ SetStatus("Success")
    /\ Goto(i, "unmap")
    /\ epi' = [epi EXCEPT !.by = @ \cup {i}]
    /\ UNCHANGED <<cfgVars, cancelled, bytesDone, doneVars, mpc,
                   planVars, mmfVars, blockIds, chunksDone, netVars>>

\* pageDone, line 534
PageDoneUnmap(i) ==
    /\ At(i, "page", "unmap")
    /\ Unmap
    /\ Goto(i, "cleanup")
    /\ UNCHANGED <<cfgVars, cancelled, statusVars, bytesDone, doneVars, mpc,
                   planVars, blockIds, chunksDone, epi, netVars>>

\* pageDone with the test of the status the wrong way round
PageDoneCleanup_Inverted(i) ==
    /\ At(i, "page", "cleanup")
    /\ IF StatusValue(status) > 0
       THEN /\ Call("delete")
            /\ \E r \in {"ok", "notFound", "error"} :
                 rres' = [rres EXCEPT !.delete = r,
                                      !.deleteLogged = (r # "ok")]
       ELSE UNCHANGED netVars
    /\ Goto(i, "reportDone")
    /\ UNCHANGED <<cfgVars, cancelled, statusVars, bytesDone, doneVars, mpc,
                   planVars, mmfVars, blockIds, chunksDone, epi>>

\* pageDone, lines 537-544: the delete when the status is <= 0; every
\* error of the delete is logged
PageDoneCleanup(i) ==
    /\ At(i, "page", "cleanup")
    /\ IF StatusValue(status) <= 0
       THEN /\ Call("delete")
            /\ \E r \in {"ok", "notFound", "error"} :
                 rres' = [rres EXCEPT !.delete = r,
                                      !.deleteLogged = (r # "ok")]
       ELSE UNCHANGED netVars
    /\ Goto(i, "reportDone")
    /\ UNCHANGED <<cfgVars, cancelled, statusVars, bytesDone, doneVars, mpc,
                   planVars, mmfVars, blockIds, chunksDone, epi>>

\* pageDone, line 545
PageDoneTransferDone(i) ==
    /\ At(i, "page", "reportDone")
    /\ ReportTransferDone
    /\ Goto(i, "done")
    /\ UNCHANGED <<cfgVars, cancelled, statusVars, bytesDone, mpc,
                   planVars, mmfVars, blockIds, chunksDone, epi, netVars>>

pageBlobUploadFunc(i) ==
    \/ PBStart(i) \/ PBScan(i) \/ PBUploadReturn(i)
    \/ PBErrCheck(i) \/ PBErrCancel(i) \/ PBErrStatus(i)
    \/ PageDoneAdd(i) \/ PageDoneReport(i) \/ PageDoneSuccess(i)
    \/ PageDoneUnmap(i) \/ PageDoneCleanup(i) \/ PageDoneTransferDone(i)

LocalToBlockBlob ==
    \/ Prologue \/ PutBlobUploadFunc \/ PageBlobBranch \/ BlockBlobBranch

Worker(i) == blockBlobUploadFunc(i) \/ pageBlobUploadFunc(i)

Next ==
    \/ LocalToBlockBlob
    \/ \E i \in Chunks : Worker(i)
    \/ ExternalCancel

Spec == Init /\ [][Next]_vars

\* every goroutine that can take a step eventually takes one, and every
\* remote call returns; the cancellation from outside need never come
FairSpec ==
    /\ Spec
    /\ WF_vars(LocalToBlockBlob)
    /\ \A i \in Chunks : WF_vars(Worker(i))

(***************************************************************************)
(* pageBlobUploadFunc by itself: the chunkFunc of one page range           *)
(* [0, calculatedPageSize) of any length, in a transfer that created the   *)
(* page blob and scheduled that range alone.                               *)
(***************************************************************************)
ScanInit ==
    /\ blobSize \in 1..MaxPageLength
    /\ blockSize = blobSize
    /\ isVhd = TRUE
    \* all zero, or one byte of the range is not
    /\ nz \in {{}} \cup {{o} : o \in 0..(blobSize - 1)}
    /\ cancelled = FALSE
    /\ status = "InProgress"
    /\ failedOnce = FALSE
    /\ bytesDone = 0
    /\ numberOfChunks = 1
    /\ chunksDone = 0
    /\ transferDoneCount = 0
    /\ doneSnap = <<>>
    /\ mpc = "return"
    /\ chunkSize = blobSize
    /\ startIndex = blobSize
    /\ blockIdCount = 0
    /\ mmf = "mapped"
    /\ unmapCount = 0
    /\ badUnmap = FALSE
    /\ staleRead = FALSE
    /\ chunks = <<[offset |-> 0, length |-> blobSize]>>
    /\ w = [i \in Chunks |->
              IF i = 1 THEN [IdleWorker EXCEPT !.pc = "ready", !.kind = "page"]
              ELSE IdleWorker]
    /\ blockIds = [i \in Chunks |-> 0]
    /\ calls = [NoCalls EXCEPT !.create = 1]
    /\ rres = [NoResults EXCEPT !.create = "ok"]
    /\ epi = NoEpilogue

ScanNext == pageBlobUploadFunc(1) \/ ExternalCancel

ScanSpec == ScanInit /\ [][ScanNext]_vars

(***************************************************************************)
(* Vocabulary of the properties.                                           *)
(***************************************************************************)
Scheduled == 1..Len(chunks)

LastWorkers == {i \in Chunks : w[i].last}

\* no goroutine of the transfer has a step left
Finished ==
    /\ mpc = "return"
    /\ \A i \in Chunks : w[i].pc \in {"unscheduled", "done"}

AllWorkersDone ==
    /\ Finished
    /\ Len(chunks) >= 1

Reported == doneSnap # <<>>

BlockStrategy == \E i \in Scheduled : w[i].kind = "block"

PageStrategy == \E i \in Scheduled : w[i].kind = "page"

\* a stage-block call failed while the transfer was not cancelled
StageFailed ==
    \E i \in Scheduled : w[i].kind = "block" /\ w[i].path = "failed"

StageFailedAndHandled ==
    \E i \in Scheduled :
        /\ w[i].kind = "block" /\ w[i].path = "failed"
        /\ w[i].pc \notin {"errCancel", "errStatus"}

RECURSIVE SumLengths(_)
SumLengths(seq) ==
    IF seq = <<>> THEN 0 ELSE Head(seq).length + SumLengths(Tail(seq))

Ceil(a, b) == (a + b - 1) \div b

(***************************************************************************)
(* C1: in a chunked transfer each worker calls ReportChunkDone exactly     *)
(* once (never twice, and once by the time it returns), at most one call   *)
(* answers "last", only the worker so answered runs the epilogue, and when *)
(* all workers have returned exactly one was answered "last" and it ran    *)
(* the epilogue.                                                           *)
(***************************************************************************)
C1_OneLastOneEpilogue ==
    /\ \A i \in Chunks :
         /\ w[i].reports <= 1
         /\ w[i].pc = "done" => w[i].reports = 1
    /\ Cardinality(LastWorkers) <= 1
    /\ epi.by \subseteq LastWorkers
    /\ AllWorkersDone =>
         /\ Cardinality(LastWorkers) = 1
         /\ epi.by = LastWorkers

C1_Witness ==
    /\ AllWorkersDone
    /\ Len(chunks) = 3
    /\ \E i, j, k \in Scheduled :
         w[i].path = "failed" /\ w[j].path = "skip" /\ w[k].path = "ok"

(***************************************************************************)
(* C2: every transfer reaches its terminal state: once no goroutine of the *)
(* transfer has a step left, ReportTransferDone has been called.           *)
(***************************************************************************)
C2_TransferDoneReported == Finished => transferDoneCount >= 1

(***************************************************************************)
(* C3: Unmap is called exactly once when the source was mapped (never      *)
(* twice, and once by the time the transfer is finished) and never when no *)
(* mapping was created.                                                    *)
(***************************************************************************)
C3_UnmapExactlyOnce ==
    /\ unmapCount <= 1
    /\ ~badUnmap
    /\ (Finished /\ mmf # "none") => unmapCount = 1

(***************************************************************************)
(* C4: once a failure status was set the status is never Success, and the  *)
(* status is Success only when every chunk write, the commit and the       *)
(* tier-set call of the transfer succeeded.                                *)
(***************************************************************************)
C4_SuccessOnlyWhenAllSucceeded ==
    /\ failedOnce => status # "Success"
    /\ status = "Success" =>
         /\ \A i \in Scheduled : w[i].res # "err"
         /\ rres.upload # "err"
         /\ rres.commit # "err"
         /\ rres.setTier # "err"

(***************************************************************************)
(* C5: when a stage-block call fails while the transfer is not cancelled,  *)
(* the transfer is cancelled, no block list is committed, and when the     *)
(* transfer is reported done every chunk has reported, the epilogue ran    *)
(* once, the status is Failed and the delete of the destination was tried  *)
(* before; a "not found" answer to the delete is not logged as an error.   *)
(***************************************************************************)
C5_ChunkFailureFailsTransfer ==
    /\ StageFailedAndHandled => cancelled /\ status = "Failed"
    /\ StageFailed => calls.commitBlockList = 0
    /\ (StageFailed /\ Reported) =>
         /\ transferDoneCount = 1
         /\ doneSnap.reported = numberOfChunks
         /\ \A i \in Scheduled : w[i].reports = 1
         /\ Cardinality(epi.by) = 1
         /\ doneSnap.status = "Failed"
         /\ doneSnap.deletes = 1
         /\ rres.delete = "notFound" => ~rres.deleteLogged

C5_Witness ==
    /\ Len(chunks) = 3
    /\ w[2].kind = "block" /\ w[2].path = "failed"
    /\ w[1].path = "ok" /\ w[3].path = "skip"
    /\ Reported
    /\ rres.delete = "notFound"

(***************************************************************************)
(* C6: every chunk's bytes are added exactly once, with the chunk's        *)
(* length, before the chunk is reported done, whatever its outcome; so     *)
(* when the epilogue runs the bytes done are the source size.              *)
(***************************************************************************)
C6_BytesOncePerChunk ==
    /\ \A i \in Scheduled :
         /\ w[i].adds <= 1
         /\ w[i].added = w[i].adds * chunks[i].length
         /\ w[i].reports >= 1 => w[i].adds = 1
    /\ epi.by # {} => bytesDone = blobSize

C6_Witness ==
    /\ PageStrategy
    /\ epi.by # {}
    /\ \E i, j \in Scheduled : w[i].path = "zero" /\ w[j].path = "failed"

C6_WitnessBlock ==
    /\ BlockStrategy
    /\ epi.by # {}
    /\ \E i, j \in Scheduled : w[i].path = "skip" /\ w[j].path = "failed"

(***************************************************************************)
(* C7: on every failure path, when the transfer is reported done the bytes *)
(* added are the source size.                                              *)
(***************************************************************************)
C7_FailurePathsAccountBytes ==
    (Reported /\ DidFail(doneSnap.status)) => doneSnap.bytes = blobSize

(***************************************************************************)
(* C8: the block list is committed at most once, by the worker that was    *)
(* answered "last", and never when that worker finds the transfer          *)
(* cancelled as its epilogue starts: then neither commit nor tier-set is   *)
(* sent and the status is not Success.                                     *)
(***************************************************************************)
C8_CommitOnceNotWhenCancelled ==
    /\ calls.commitBlockList <= 1
    /\ calls.commitBlockList = 1 =>
         /\ epi.committer \in LastWorkers
         /\ epi.reportedAtCommit = numberOfChunks
    /\ epi.sawCancel = "yes" =>
         /\ calls.commitBlockList = 0
         /\ calls.setTier = 0
         /\ status # "Success"

C8_Witness ==
    /\ epi.sawCancel = "yes"
    /\ Reported
    /\ Len(chunks) = 3
    /\ \A i \in Scheduled : w[i].path = "ok"

C8_WitnessCommit ==
    /\ calls.commitBlockList = 1
    /\ Len(chunks) = 3
    /\ cancelled

(***************************************************************************)
(* C9: when the commit of the block list, or the whole-object upload,      *)
(* succeeded and the tier-set call after it failed, the transfer is        *)
(* reported done with the status BlobTierFailure and after a delete of the *)
(* destination was tried.                                                  *)
(***************************************************************************)
C9_TierFailureIsFinal ==
    (/\ Reported
     /\ rres.setTier = "err"
     /\ rres.commit = "ok" \/ rres.upload = "ok") =>
        /\ doneSnap.status = "BlobTierFailure"
        /\ doneSnap.deletes = 1

C9_Witness ==
    /\ Reported
    /\ rres.setTier = "err"
    /\ rres.commit = "ok"

C9_WitnessPut ==
    /\ Reported
    /\ rres.setTier = "err"
    /\ rres.upload = "ok"

(***************************************************************************)
(* C10: the chunks scheduled start at 0, c, 2c, ..., each but the last is  *)
(* c long and the last is the rest of the source (1..c), the lengths add   *)
(* up to the source size, and as many chunks are scheduled as              *)
(* SetNumberOfChunks was told: ceil(S / c), c the chunk size in effect.    *)
(***************************************************************************)
C10_PlanCoversSource ==
    /\ mpc # "panic"
    /\ \A k \in Scheduled :
         /\ chunks[k].offset = (k - 1) * chunkSize
         /\ chunks[k].length >= 1
         /\ chunks[k].length <= chunkSize
         /\ k < Len(chunks) => chunks[k].length = chunkSize
    /\ (mpc \in {"blockCheck", "return"} /\ Len(chunks) >= 1) =>
         /\ Len(chunks) = numberOfChunks
         /\ numberOfChunks = Ceil(blobSize, chunkSize)
         /\ chunks[Len(chunks)].length = blobSize - chunks[Len(chunks)].offset
         /\ SumLengths(chunks) = blobSize

C10_Witness ==
    /\ mpc = "return"
    /\ Len(chunks) = 3
    /\ chunks[3].length < chunkSize

C10_WitnessPage ==
    /\ mpc = "return"
    /\ PageStrategy
    /\ Len(chunks) = 2
    /\ chunks[2].length < chunkSize

(***************************************************************************)
(* Vocabulary of the planner claims.                                       *)
(***************************************************************************)
SmallSource == blobSize = 0 \/ blobSize <= blockSize

ChunkedPcs ==
    {"pageHeaders", "pageCreate", "createFailedCancel", "createFailedStatus",
     "createFailedDone", "createFailedUnmap", "pageTier", "tierFailedCancel",
     "tierFailedStatus", "tierFailedDelete", "tierFailedDone",
     "tierFailedUnmap", "pagePlan", "pageSchedule", "blockPlan",
     "blockSchedule", "blockCheck", "panic"}

PutWrittenPcs ==
    {"putFailed", "putTier", "putTierFailedStatus", "putTierFailedDelete",
     "putSuccess", "putAdd", "putDone", "putUnmap"}

WholeObjectUpload ==
    /\ mpc \notin ChunkedPcs
    /\ chunks = <<>>
    /\ numberOfChunks = 0
    /\ chunksDone = 0
    /\ calls.create = 0
    /\ calls.stageBlock = 0
    /\ calls.uploadPages = 0
    /\ calls.commitBlockList = 0
    /\ calls.upload <= 1
    /\ mpc \in PutWrittenPcs => calls.upload = 1

(***************************************************************************)
(* C11, as stated: whenever the source is empty or not larger than the     *)
(* block size, .vhd sources of a size that is a multiple of 512 included,  *)
(* the transfer is one whole-object upload: no chunk is scheduled, no      *)
(* chunk counter is set, one PutBlob call is made; an empty source is      *)
(* never mapped and ends in Success when the upload succeeded.             *)
(***************************************************************************)
C11_SmallSourceWholeObject ==
    SmallSource =>
        /\ WholeObjectUpload
        /\ blobSize = 0 =>
             /\ mmf = "none"
             /\ unmapCount = 0
             /\ (Reported /\ rres.upload = "ok") => doneSnap.status = "Success"

(***************************************************************************)
(* C11, amended: the same for every source that is not uploaded as a page  *)
(* blob (not a .vhd, or a size that is no multiple of 512); the empty      *)
(* source ends in Success when the upload and the tier-set call, if one is *)
(* made, succeeded.                                                        *)
(***************************************************************************)
C11_SmallBlockSourceWholeObject ==
    (SmallSource /\ ~IsPageBlob(isVhd, blobSize)) =>
        /\ WholeObjectUpload
        /\ blobSize = 0 =>
             /\ mmf = "none"
             /\ unmapCount = 0
             /\ (Reported /\ rres.upload = "ok" /\ rres.setTier # "err") =>
                    doneSnap.status = "Success"

C11_Witness ==
    /\ blobSize = 0
    /\ ~isVhd
    /\ Reported
    /\ calls.upload = 1
    /\ doneSnap.status = "Success"

C11_WitnessEqual ==
    /\ blobSize = blockSize
    /\ ~IsPageBlob(isVhd, blobSize)
    /\ mpc = "return"
    /\ calls.upload = 1
    /\ unmapCount = 1

(***************************************************************************)
(* Vocabulary of the page-range claims.                                    *)
(***************************************************************************)
\* the scan of range i is over and told whether to send it
Scanned(i) ==
    /\ w[i].kind = "page"
    /\ \/ w[i].path \in {"zero", "ok", "err", "failed"}
       \/ w[i].pc = "uploading"

\* no byte of range i is non-zero
IsZeroRange(i) ==
    ~ \E o \in nz :
        chunks[i].offset <= o /\ o < chunks[i].offset + chunks[i].length

C13_ExistingBlobSkipped ==
    (mpc \in {"existsStatus", "existsAdd", "existsDone"}
        \/ status = "BlobAlreadyExistsFailure") =>
        /\ calls = NoCalls
        /\ chunks = <<>>
        /\ numberOfChunks = 0
        /\ mmf = "none"
        /\ unmapCount = 0
        /\ bytesDone \in {0, blobSize}
        /\ transferDoneCount <= 1
        /\ mpc \notin {"existsStatus", "existsAdd", "existsDone"} =>
             /\ mpc = "return"
             /\ transferDoneCount = 1
             /\ doneSnap.status = "BlobAlreadyExistsFailure"
             /\ doneSnap.bytes = blobSize
             /\ bytesDone = blobSize

C13_Witness ==
    /\ status = "BlobAlreadyExistsFailure"
    /\ mpc = "return"
    /\ IsPageBlob(isVhd, blobSize)
    /\ blobSize > blockSize
    /\ cancelled

(***************************************************************************)
(* C14: in a page-blob transfer whose status is Failed (an UploadPages     *)
(* call failed and the worker set the status), pageDone of the last page   *)
(* first unmaps the source, then deletes the page blob, and only then      *)
(* reports the transfer done; the status the job manager sees is Failed.   *)
(***************************************************************************)
C14_FailedPageBlobDeleted ==
    /\ (PageStrategy /\ failedOnce) => status = "Failed"
    /\ (PageStrategy /\ status = "Failed") =>
         /\ calls.delete <= 1
         /\ \A i \in Scheduled :
              /\ w[i].pc = "cleanup" =>
                   /\ mmf = "unmapped"
                   /\ unmapCount = 1
                   /\ calls.delete = 0
                   /\ transferDoneCount = 0
              /\ w[i].pc = "reportDone" =>
                   /\ unmapCount = 1
                   /\ calls.delete = 1
                   /\ transferDoneCount = 0
         /\ Reported =>
              /\ transferDoneCount = 1
              /\ doneSnap.status = "Failed"
              /\ doneSnap.unmaps = 1
              /\ doneSnap.deletes = 1

C14_Witness ==
    /\ PageStrategy
    /\ AllWorkersDone
    /\ doneSnap.status = "Failed"
    /\ doneSnap.deletes = 1
    /\ \E i, j \in Scheduled :
         /\ w[i].path = "failed"
         /\ w[j].last
         /\ i # j

(***************************************************************************)
(* C15: a chunk worker that starts when the transfer is cancelled (by a    *)
(* worker's Cancel or from outside) goes straight to AddToBytesDone and    *)
(* ReportChunkDone: none of its steps sends StageBlock or UploadPages or   *)
(* writes a block id.  The step that cancels leaves a worker that waits    *)
(* for the answer of its call where it is, and that worker goes on with    *)
(* the answer it gets.                                                     *)
(***************************************************************************)
C15_CancelledWorkersSkip ==
    [][\A i \in Chunks :
          /\ (cancelled /\ w[i].pc = "ready" /\ w'[i].pc # "ready") =>
                /\ w'[i].pc = "add"
                /\ calls' = calls
                /\ blockIds' = blockIds
          /\ (w[i].path = "skip" /\ w'[i] # w[i]) =>
                /\ w[i].res = "none"
                /\ blockIds[i] = 0
                /\ blockIds' = blockIds
                /\ calls'.stageBlock = calls.stageBlock
                /\ calls'.uploadPages = calls.uploadPages
                /\ w[i].pc \in {"add", "report"} =>
                      w'[i].pc \in {"report", "done", "unmap", "success"}
          /\ (w[i].pc \in {"staging", "uploading"} /\ cancelled' # cancelled) =>
                w'[i] = w[i]
          /\ (w[i].pc \in {"staging", "uploading"} /\ w'[i] # w[i]) =>
                /\ w'[i].res \in {"ok", "err"}
                /\ w'[i].pc = IF w'[i].res = "ok" THEN "add" ELSE "errCheck"
      ]_vars

C15_Witness ==
    /\ cancelled
    /\ \E i, j, k \in Scheduled :
         /\ w[i].path = "skip" /\ w[i].pc = "done" /\ blockIds[i] = 0
         /\ w[j].pc = "staging"
         /\ w[k].path = "failed"

C15_WitnessExternal ==
    /\ cancelled
    /\ ~failedOnce
    /\ AllWorkersDone
    /\ \E i, j \in Scheduled :
         /\ w[i].path = "skip" /\ w[i].kind = "page"
         /\ w[j].path = "ok"

(***************************************************************************)
(* C16: slot i of the block-id table is written at most once, by the       *)
(* worker of chunk i, before that worker's ReportChunkDone; the table is   *)
(* read for CommitBlockList by the worker that got "last" from             *)
(* ReportChunkDone, when all numberOfChunks workers have reported; no slot *)
(* is written after that read.                                             *)
(***************************************************************************)
C16_BlockIdTableRaceFree ==
    [][/\ \A i \in Chunks :
            blockIds'[i] # blockIds[i] =>
              /\ blockIds[i] = 0
              /\ blockIds'[i] = i
              /\ w[i].kind = "block"
              /\ w[i].pc = "stage"
              /\ w'[i].pc = "staging"
              /\ w[i].reports = 0
              /\ calls.commitBlockList = 0
              /\ \A j \in Chunks \ {i} : blockIds'[j] = blockIds[j]
       /\ calls'.commitBlockList >= 1 =>
            /\ calls'.commitBlockList = 1
            /\ epi'.reportedAtCommit = numberOfChunks'
            /\ epi'.committer \in epi'.by
            /\ w'[epi'.committer].last
            /\ \A j \in Scheduled : w'[j].reports = 1
            /\ epi'.committed = [c \in 1..numberOfChunks' |-> blockIds'[c]]
      ]_vars

C16_Witness ==
    /\ calls.commitBlockList = 1
    /\ Len(chunks) = 3
    /\ epi.committed = <<1, 2, 3>>
    /\ epi.committer = 1

(***************************************************************************)
(* Vocabulary of the page chunk size claims.                               *)
(***************************************************************************)
\* the page-blob branch has fixed its chunk size
PageBranchEntered == mpc = "pageCreate" \/ calls.create >= 1

SmallerOf(a, b) == IF a <= b THEN a ELSE b

RoundedDownPageChunkSize(c) ==
    SmallerOf(c - (c % PageBlobPageBytes), DefaultPageBlobChunkSize)

DefaultedPageChunkSize(c) ==
    IF c % PageBlobPageBytes = 0
    THEN SmallerOf(c, DefaultPageBlobChunkSize)
    ELSE DefaultPageBlobChunkSize

(***************************************************************************)
(* C17, as stated: the page-blob branch uploads in chunks of min(C, M)     *)
(* when the block size C is a multiple of 512 and of C rounded down to a   *)
(* multiple of 512, at most M, when it is not (M the default page-blob     *)
(* chunk size); it plans ceil(S / that size) chunks.                       *)
(***************************************************************************)
C17_PageChunkSizeRoundedDown ==
    PageBranchEntered =>
        /\ chunkSize = RoundedDownPageChunkSize(blockSize)
        /\ (mpc = "pageSchedule" \/ Len(chunks) >= 1) =>
             numberOfChunks = Ceil(blobSize, chunkSize)

(***************************************************************************)
(* C17, amended: the chunk size is min(C, M) when C is a multiple of 512   *)
(* and M when it is not; ceil(S / that size) chunks are planned.           *)
(***************************************************************************)
C17_PageChunkSizeDefaulted ==
    PageBranchEntered =>
        /\ chunkSize = DefaultedPageChunkSize(blockSize)
        /\ (mpc = "pageSchedule" \/ Len(chunks) >= 1) =>
             numberOfChunks = Ceil(blobSize, DefaultedPageChunkSize(blockSize))

C17_Witness ==
    /\ PageStrategy
    /\ mpc = "return"
    /\ blockSize % PageBlobPageBytes # 0
    /\ blockSize > PageBlobPageBytes
    /\ blobSize > blockSize
    /\ numberOfChunks = 1

C17_WitnessClamped ==
    /\ PageStrategy
    /\ mpc = "return"
    /\ blockSize > DefaultPageBlobChunkSize
    /\ numberOfChunks = 2

C17_WitnessMultiple ==
    /\ PageStrategy
    /\ mpc = "return"
    /\ blockSize = PageBlobPageBytes
    /\ numberOfChunks = 2

(***************************************************************************)
(* Vocabulary of the epilogue claims.                                      *)
(***************************************************************************)
\* the steps of a block-blob transfer come in the epilogue's order; the
\* delete is sent only in a state that satisfies deleteAllowed
BlockEpilogueOrder(deleteAllowed) ==
    BlockStrategy =>
        \* CommitBlockList, then SetTier, both before the mapping is released
        /\ calls'.commitBlockList # calls.commitBlockList =>
             /\ calls.commitBlockList = 0
             /\ calls.setTier = 0
             /\ unmapCount = 0
        /\ calls'.setTier # calls.setTier =>
             /\ calls.commitBlockList = 1
             /\ rres.commit = "ok"
             /\ unmapCount = 0
        \* the status is final when the mapping is released
        /\ status' # status =>
             /\ unmapCount = 0
             /\ status' = "Success" =>
                  calls.commitBlockList = 1 /\ rres.commit = "ok"
        /\ unmapCount' # unmapCount =>
             /\ unmapCount = 0
             /\ calls.delete = 0
             /\ transferDoneCount = 0
        /\ calls'.delete # calls.delete =>
             /\ calls.delete = 0
             /\ unmapCount = 1
             /\ transferDoneCount = 0
             /\ deleteAllowed
        /\ transferDoneCount' # transferDoneCount =>
             /\ transferDoneCount = 0
             /\ unmapCount = 1
             /\ DidFail(status) => calls.delete = 1
        \* nothing after ReportTransferDone
        /\ transferDoneCount >= 1 =>
             /\ statusVars' = statusVars
             /\ cancelled' = cancelled
             /\ netVars' = netVars
             /\ mmfVars' = mmfVars
             /\ bytesDone' = bytesDone
             /\ wVars' = wVars

C18_WitnessTier ==
    /\ BlockStrategy
    /\ AllWorkersDone
    /\ doneSnap.status = "BlobTierFailure"
    /\ doneSnap.deletes = 1
    /\ calls.commitBlockList = 1

C18_WitnessSuccess ==
    /\ BlockStrategy
    /\ AllWorkersDone
    /\ mpc = "return"
    /\ doneSnap.status = "Success"
    /\ doneSnap.deletes = 0
    /\ calls.setTier = 1

C19_WitnessCommitFailed ==
    /\ BlockStrategy
    /\ Reported
    /\ rres.commit = "err"
    /\ doneSnap.deletes = 1
    /\ rres.delete = "notFound"

C19_WitnessChunkFailed ==
    /\ BlockStrategy
    /\ Reported
    /\ \E i, j \in Scheduled : w[i].res = "ok" /\ w[j].path = "failed"
    /\ doneSnap.deletes = 1

(***************************************************************************)
(* C20: the source mapping is never read after Unmap: not by a worker that *)
(* slices it for StageBlock or UploadPages or scans it for zeros, not by a *)
(* call that still reads its body, not by PutBlob, and not by BlobDstData  *)
(* before Create or CommitBlockList; whoever is about to read it, or waits *)
(* for a call that reads it, finds it mapped.                              *)
(***************************************************************************)
C20_NoReadAfterUnmap ==
    /\ ~staleRead
    /\ \A i \in Scheduled :
         w[i].pc \in {"stage", "staging", "scan", "uploading", "commit"} =>
             mmf = "mapped"
    /\ mpc \in {"putHeaders", "putUpload", "pageHeaders"} => mmf # "unmapped"

C20_Witness ==
    /\ AllWorkersDone
    /\ Len(chunks) = 3
    /\ calls.stageBlock = 3
    /\ calls.commitBlockList = 1
    /\ mmf = "unmapped"
    /\ unmapCount = 1

C20_WitnessPage ==
    /\ AllWorkersDone
    /\ PageStrategy
    /\ Len(chunks) = 2
    /\ calls.uploadPages = 2
    /\ mmf = "unmapped"

(***************************************************************************)
(* C21: when CommitBlockList is sent, each of the numberOfChunks blocks    *)
(* was staged with success and the list sent holds, slot by slot, the id   *)
(* under which its block was staged: no slot is empty and none belongs to  *)
(* a block whose StageBlock failed or that was skipped, whatever the order *)
(* in which the workers finished and whatever failed or was cancelled      *)
(* meanwhile.                                                              *)
(***************************************************************************)
C21_CommitListsAllStagedBlocks ==
    calls.commitBlockList >= 1 =>
        /\ numberOfChunks >= 1
        /\ Len(chunks) = numberOfChunks
        /\ Len(epi.committed) = numberOfChunks
        /\ \A c \in 1..numberOfChunks :
             /\ w[c].kind = "block"
             /\ w[c].res = "ok"
             /\ w[c].path = "ok"
             /\ w[c].reports = 1
             /\ epi.committed[c] # 0
             /\ epi.committed[c] = c
             /\ blockIds[c] = epi.committed[c]

C21_Witness ==
    /\ calls.commitBlockList = 1
    /\ Len(chunks) = 3
    /\ epi.committer = 2
    /\ cancelled
    /\ rres.commit = "ok"

(***************************************************************************)
(* C22: ReportTransferDone is called at most once in a transfer, on every  *)
(* path and in every interleaving of the workers, and the status is never  *)
(* changed after the call: the status the job manager saw at the call is   *)
(* the status of the transfer from then on.                                *)
(***************************************************************************)
C22_OneFinalStatus ==
    /\ transferDoneCount <= 1
    /\ Reported <=> transferDoneCount = 1
    /\ Reported =>
         /\ status = doneSnap.status
         /\ failedOnce = DidFail(doneSnap.status)

C22_Witness ==
    /\ AllWorkersDone
    /\ Len(chunks) = 3
    /\ transferDoneCount = 1
    /\ doneSnap.status = "Failed"
    /\ \E i, j \in Scheduled : w[i].path = "failed" /\ w[j].path = "err"

C22_WitnessEarlyCancel ==
    /\ mpc = "return"
    /\ transferDoneCount = 1
    /\ mmf = "none"
    /\ cancelled
    /\ doneSnap.status = "InProgress"

C22_WitnessCreateFailed ==
    /\ mpc = "return"
    /\ transferDoneCount = 1
    /\ rres.create = "err"
    /\ doneSnap.status = "Failed"

C23_WitnessPut ==
    /\ Reported
    /\ calls.delete = 1
    /\ calls.upload = 1
    /\ doneSnap.status = "BlobTierFailure"

C23_WitnessPageSuccess ==
    /\ Reported
    /\ PageStrategy
    /\ cancelled
    /\ doneSnap.status = "Success"
    /\ calls.delete = 0
====
